---- MODULE Spec2Model ----
(***************************************************************************)
(* Decision layer of the torii-ink status dashboard (src/src/main.cpp):    *)
(* the MQTT message ingestor (mqttCallback and the jsonInt / jsonStr /     *)
(* jsonBool extractors), the navigation state machine of loop(), and the   *)
(* refresh-mode policy of transitionTo().                                  *)
(*                                                                         *)
(* C strings are TLA+ strings; a char buffer holds the string up to its    *)
(* terminating NUL.  Time is kept as the code reads it: the code stores    *)
(* millis() timestamps and only ever uses the differences now - stamp      *)
(* against a threshold, so the model stores those differences (the age of  *)
(* each timestamp), saturated just above the threshold they are compared   *)
(* with.                                                                   *)
(***************************************************************************)
EXTENDS Integers, Sequences, FiniteSets, TLC

VARIABLES
    pc,           \* "boot" (before setup), "setup" (inside setup), "loop"
    framebuffer,  \* TRUE iff malloc in initDisplay returned a buffer
    health,       \* HealthState
    killswitch,   \* KillswitchState
    gw_health,    \* GatewayHealth
    ks_changed,   \* the process-wide change flag
    nav,          \* NavState (timestamps as ages)
    prev,         \* loop()'s static prev_up / prev_set / prev_down
    db,           \* loop()'s static db_up / db_set / db_down (as ages)
    ev,           \* what the last step did (the Serial log of that step)
    merged,       \* killswitch merges since the last navigation evaluation
    quick,        \* passes of loop() in a row that returned before delay(100)
    sensor,       \* SensorData (co2 stands for co2, temp and hum, which are
                  \* only ever assigned together)
    last_sensor,  \* nav.last_sensor (as an age)
    fast_run,     \* display refreshes since the last Full one
    panel         \* the initialisation the display driver did last

vars == <<pc, framebuffer, health, killswitch, gw_health, ks_changed,
          nav, prev, db, ev, merged, quick, sensor, last_sensor,
          fast_run, panel>>

(***************************************************************************)
(* Program constants                                                       *)
(***************************************************************************)
DEBOUNCE_MS == 50
DETAIL_TIMEOUT_MS == 25000
HOME_REFRESH_MS == 60000
FULL_REFRESH_EVERY == 5
MQTT_MAX_LEN == 512
UP_SZ == 16
MODEL_SZ == 24
STATE_SZ == 16
ADDRESS_SZ == 64
ISOLATED_AT_SZ == 24
LOOP_DELAY_MS == 100
SENSOR_INTERVAL_MS == 120000
SETUP_WAITS == 15
SETUP_WAIT_MS == 1000
WIFI_RETRIES == 20
WIFI_BEGIN_DELAY_MS == 100
WIFI_POLL_MS == 500

HIGH == TRUE
LOW == FALSE

HOME == "HOME"
ISOLATED == "ISOLATED"
ISOLATED_HOME == "ISOLATED_HOME"
DETAIL_BREATH == "DETAIL_BREATH"
DETAIL_NERVE == "DETAIL_NERVE"
Screen == {HOME, ISOLATED, ISOLATED_HOME, DETAIL_BREATH, DETAIL_NERVE}

TOPIC_HEALTH == "hiki/health"
TOPIC_KILLSWITCH == "hiki/killswitch/status"
TOPIC_GW_HEALTH == "hiki/gateway/health"

(***************************************************************************)
(* Bounds of the model                                                     *)
(***************************************************************************)
\* transitionTo calls explored (nav.fast_count is an unbounded int)
MaxTransitions == 6
\* passes in a row without delay(100) that may follow each other closely
MaxQuick == 2

(***************************************************************************)
(* C library: strstr, strchr, atoi, strncmp                                *)
(***************************************************************************)
\* tail of s from 1-based position i (the pointer s + i - 1)
From(s, i) == SubSeq(s, i, Len(s))

\* least position >= i where needle occurs in hay, 0 when there is none
Find(hay, needle, i) ==
    LET hits == {j \in i..(Len(hay) - Len(needle) + 1) :
                     SubSeq(hay, j, j + Len(needle) - 1) = needle}
    IN IF hits = {} THEN 0
       ELSE CHOOSE j \in hits : \A k \in hits : j <= k

\* the first n characters of s (all of s when it is shorter)
Prefix(s, n) == SubSeq(s, 1, IF n < Len(s) THEN n ELSE Len(s))

\* strstr(hay, needle): position of the first occurrence, 0 for NULL
strstr(hay, needle) == Find(hay, needle, 1)

\* strchr(s, c) for a one-character string c
strchr(s, c) == Find(s, c, 1)

RECURSIVE SkipSpaces(_)
\* while (*p == ' ') p++
SkipSpaces(s) ==
    IF Len(s) > 0 /\ SubSeq(s, 1, 1) = " " THEN SkipSpaces(Tail(s)) ELSE s

DigitVal(c) ==
    CASE c = "0" -> 0 [] c = "1" -> 1 [] c = "2" -> 2 [] c = "3" -> 3
      [] c = "4" -> 4 [] c = "5" -> 5 [] c = "6" -> 6 [] c = "7" -> 7
      [] c = "8" -> 8 [] c = "9" -> 9 [] OTHER -> -1

RECURSIVE Digits(_, _)
\* the value of the leading run of decimal digits of s, continuing acc
Digits(s, acc) ==
    IF Len(s) = 0 \/ DigitVal(SubSeq(s, 1, 1)) < 0 THEN acc
    ELSE Digits(Tail(s), 10 * acc + DigitVal(SubSeq(s, 1, 1)))

\* atoi: leading blanks, an optional sign, then digits; 0 when no digit
atoi(s) ==
    LET t == SkipSpaces(s) IN
    IF Len(t) > 0 /\ SubSeq(t, 1, 1) = "-" THEN 0 - Digits(Tail(t), 0)
    ELSE IF Len(t) > 0 /\ SubSeq(t, 1, 1) = "+" THEN Digits(Tail(t), 0)
    ELSE Digits(t, 0)

\* snprintf(search, sizeof(search), "\"%s\":", key)
SearchKey(key) == "\"" \o key \o "\":"

(***************************************************************************)
(* JSON helpers                                                            *)
(***************************************************************************)
jsonInt(json, key) ==
    LET p == strstr(json, SearchKey(key)) IN
    IF p = 0 THEN 0
    ELSE atoi(From(json, p + Len(SearchKey(key))))

\* mutant: the length is not clamped to the capacity
jsonStr_NoClamp(json, key, out_sz) ==
    LET p == strstr(json, SearchKey(key)) IN
    IF p = 0 THEN ""
    ELSE LET q == SkipSpaces(From(json, p + Len(SearchKey(key)))) IN
         IF Len(q) = 0 \/ SubSeq(q, 1, 1) # "\"" THEN ""
         ELSE LET r   == Tail(q)
                  end == strchr(r, "\"")
              IN IF end = 0 THEN ""
                 ELSE SubSeq(r, 1, end - 1)

\* the C string left in out (capacity out_sz) by jsonStr
jsonStr(json, key, out_sz) ==
    LET p == strstr(json, SearchKey(key)) IN
    IF p = 0 THEN ""
    ELSE LET q == SkipSpaces(From(json, p + Len(SearchKey(key)))) IN
         IF Len(q) = 0 \/ SubSeq(q, 1, 1) # "\"" THEN ""
         ELSE LET r   == Tail(q)
                  end == strchr(r, "\"")
              IN IF end = 0 THEN ""
                 ELSE LET len == IF end - 1 >= out_sz THEN out_sz - 1
                                 ELSE end - 1
                      IN SubSeq(r, 1, len)

jsonBool(json, key) ==
    LET p == strstr(json, SearchKey(key)) IN
    IF p = 0 THEN FALSE
    ELSE \* strncmp(p, "true", 4) == 0
         Prefix(SkipSpaces(From(json, p + Len(SearchKey(key)))), 4) = "true"

(***************************************************************************)
(* State structs and their initializers                                    *)
(***************************************************************************)
HealthState0 ==
    [received |-> FALSE, ha |-> FALSE, gw |-> FALSE, inet |-> FALSE,
     ha_api |-> FALSE, ha_ms |-> 0, gw_ms |-> 0, inet_ms |-> 0,
     mem |-> 0, disk |-> 0, msgs_24h |-> 0, up |-> "", model |-> ""]

KillswitchState0 ==
    [received |-> FALSE, state |-> "unknown", address |-> "",
     ws_connected |-> FALSE, isolated_at |-> "", block_number |-> 0]

GatewayHealth0 ==
    [received |-> FALSE, ha_errors |-> 0, ha_reachable |-> FALSE]

\* last_transition and last_home_refresh are held as ages (now - stamp)
NavState0 ==
    [screen |-> HOME, last_transition |-> 0, last_home_refresh |-> 0,
     fast_count |-> 0]

(***************************************************************************)
(* MQTT: mqttCallback                                                      *)
(***************************************************************************)
\* mutant: the size check lets a payload of exactly 512 bytes through
TooLarge_Gt(length) == length > MQTT_MAX_LEN

\* if (length >= 512) return;
TooLarge(length) == length >= MQTT_MAX_LEN

\* the values the TOPIC_HEALTH branch extracts from buf
HealthFields(buf) ==
    [ha |-> jsonInt(buf, "ha") # 0,
     gw |-> jsonInt(buf, "gw") # 0,
     inet |-> jsonInt(buf, "inet") # 0,
     ha_api |-> jsonInt(buf, "ha_api") # 0,
     ha_ms |-> jsonInt(buf, "ha_ms"),
     gw_ms |-> jsonInt(buf, "gw_ms"),
     inet_ms |-> jsonInt(buf, "inet_ms"),
     mem |-> jsonInt(buf, "mem"),
     disk |-> jsonInt(buf, "disk"),
     msgs_24h |-> jsonInt(buf, "msgs_24h"),
     up |-> jsonStr(buf, "up", UP_SZ),
     model |-> jsonStr(buf, "model", MODEL_SZ)]

\* mutant: a state that cannot be extracted ends the extraction
KillswitchFields_StopAtState(buf) ==
    IF jsonStr(buf, "state", STATE_SZ) = ""
    THEN [state |-> "", address |-> "", ws_connected |-> FALSE,
          isolated_at |-> "", block_number |-> 0]
    ELSE [state |-> jsonStr(buf, "state", STATE_SZ),
          address |-> jsonStr(buf, "address", ADDRESS_SZ),
          ws_connected |-> jsonBool(buf, "ws_connected"),
          isolated_at |-> jsonStr(buf, "isolated_at", ISOLATED_AT_SZ),
          block_number |-> jsonInt(buf, "block_number")]

\* the values the TOPIC_KILLSWITCH branch extracts from buf
KillswitchFields(buf) ==
    [state |-> jsonStr(buf, "state", STATE_SZ),
     address |-> jsonStr(buf, "address", ADDRESS_SZ),
     ws_connected |-> jsonBool(buf, "ws_connected"),
     isolated_at |-> jsonStr(buf, "isolated_at", ISOLATED_AT_SZ),
     block_number |-> jsonInt(buf, "block_number")]

\* the values the TOPIC_GW_HEALTH branch extracts from buf
GwHealthFields(buf) ==
    [ha_errors |-> jsonInt(buf, "ha_errors"),
     ha_reachable |-> jsonBool(buf, "ha_reachable")]

\* the TOPIC_HEALTH branch: every field is assigned, then received
MergeHealth(h, f) ==
    [h EXCEPT !.ha = f.ha, !.gw = f.gw, !.inet = f.inet,
              !.ha_api = f.ha_api, !.ha_ms = f.ha_ms, !.gw_ms = f.gw_ms,
              !.inet_ms = f.inet_ms, !.mem = f.mem, !.disk = f.disk,
              !.msgs_24h = f.msgs_24h, !.up = f.up, !.model = f.model,
              !.received = TRUE]

\* mutant: received follows the success of the state extraction
MergeKillswitch_ReceivedIfState(k, f) ==
    [k EXCEPT !.state = f.state, !.address = f.address,
              !.ws_connected = f.ws_connected,
              !.isolated_at = f.isolated_at,
              !.block_number = f.block_number,
              !.received = (f.state # "")]

\* the TOPIC_KILLSWITCH branch (ks_changed is set by mqttCallback below)
MergeKillswitch(k, f) ==
    [k EXCEPT !.state = f.state, !.address = f.address,
              !.ws_connected = f.ws_connected,
              !.isolated_at = f.isolated_at,
              !.block_number = f.block_number,
              !.received = TRUE]

\* the TOPIC_GW_HEALTH branch
MergeGwHealth(g, f) ==
    [g EXCEPT !.ha_errors = f.ha_errors,
              !.ha_reachable = f.ha_reachable,
              !.received = TRUE]

(***************************************************************************)
(* Inputs explored                                                         *)
(***************************************************************************)
H_FULL == "{\"ha\":1,\"gw\":1,\"inet\":1,\"ha_api\":1,\"ha_ms\":12,\"gw_ms\":3,\"inet_ms\":40,\"mem\":120,\"disk\":55,\"msgs_24h\":9,\"up\":\"3d\",\"model\":\"m1\"}"
H_PART == "{\"ha\":1}"
K_ISO == "{\"state\":\"isolated\",\"address\":\"4Abc\",\"ws_connected\":true,\"isolated_at\":\"12:00\",\"block_number\":7}"
K_CONN == "{\"state\": \"connected\",\"address\":\"4Abc\",\"ws_connected\":true,\"block_number\":8}"
K_PART == "{\"block_number\":9}"
\* state unquoted, block_number not a number, isolated_at without its
\* closing quote; address and ws_connected well-formed
K_BAD == "{\"state\":isolated,\"block_number\":abc,\"ws_connected\":true,\"address\":\"4Abc\",\"isolated_at\":\"12:00}"
\* mem not a number, up unquoted; ha and disk well-formed
H_BAD == "{\"ha\":1,\"mem\":abc,\"disk\":55,\"up\":3d}"
\* one malformed value each, ahead of or between well-formed ones: state
\* unquoted; isolated_at without its closing quote; mem not a number;
\* ha_errors not a number
K_RAW == "{\"state\":isolated,\"address\":\"4Abc\",\"ws_connected\":true,\"isolated_at\":\"12:00\",\"block_number\":7}"
K_TORN == "{\"state\":\"isolated\",\"isolated_at\":\"12:00,\"address\":\"4Abc\",\"ws_connected\":true,\"block_number\":7}"
H_NAN == "{\"mem\":abc,\"ha\":1,\"disk\":55,\"up\":\"3d\",\"model\":\"m1\"}"
G_NAN == "{\"ha_errors\":x,\"ha_reachable\":true}"
\* a payload with none of the keys of any sub-report
P_NONE == "{}"
G_FULL == "{\"ha_errors\":2,\"ha_reachable\":true}"
G_PART == "{\"ha_errors\":3}"
TOPIC_OTHER == "hiki/other"

RECURSIVE Blanks(_)
\* a string of k blanks
Blanks(k) ==
    IF k = 0 THEN ""
    ELSE IF k % 2 = 0 THEN LET h == Blanks(k \div 2) IN h \o h
    ELSE " " \o Blanks(k - 1)

\* payload p padded with blanks to exactly len characters
Padded(p, len) == p \o Blanks(len - Len(p))

Messages ==
    {<<TOPIC_HEALTH, H_FULL>>, <<TOPIC_HEALTH, H_PART>>,
     <<TOPIC_HEALTH, H_BAD>>,
     <<TOPIC_KILLSWITCH, K_ISO>>, <<TOPIC_KILLSWITCH, K_CONN>>,
     <<TOPIC_KILLSWITCH, K_PART>>, <<TOPIC_KILLSWITCH, K_BAD>>,
     <<TOPIC_GW_HEALTH, G_FULL>>, <<TOPIC_GW_HEALTH, G_PART>>,
     <<TOPIC_KILLSWITCH, K_RAW>>, <<TOPIC_KILLSWITCH, K_TORN>>,
     <<TOPIC_HEALTH, H_NAN>>, <<TOPIC_GW_HEALTH, G_NAN>>,
     <<TOPIC_HEALTH, P_NONE>>, <<TOPIC_KILLSWITCH, P_NONE>>,
     <<TOPIC_GW_HEALTH, P_NONE>>,
     <<TOPIC_OTHER, K_ISO>>,
     <<TOPIC_HEALTH, Padded(H_FULL, MQTT_MAX_LEN)>>,
     <<TOPIC_KILLSWITCH, Padded(K_ISO, MQTT_MAX_LEN)>>,
     <<TOPIC_GW_HEALTH, Padded(G_FULL, MQTT_MAX_LEN)>>}

\* the extractors' results on each payload explored, evaluated once
Extracted ==
    [m \in Messages |->
        IF m[1] = TOPIC_HEALTH THEN HealthFields(m[2])
        ELSE IF m[1] = TOPIC_KILLSWITCH THEN KillswitchFields(m[2])
        ELSE IF m[1] = TOPIC_GW_HEALTH THEN GwHealthFields(m[2])
        ELSE <<>>]

\* the killswitch reports the navigation is explored under
NavMessages ==
    {<<TOPIC_KILLSWITCH, K_ISO>>, <<TOPIC_KILLSWITCH, K_CONN>>,
     <<TOPIC_KILLSWITCH, K_PART>>}

Pins(u, s, d) == [up |-> u, set |-> s, down |-> d]

\* pin samples: none pressed, UP, SET, DOWN, UP and DOWN together
Samples ==
    {Pins(HIGH, HIGH, HIGH), Pins(LOW, HIGH, HIGH), Pins(HIGH, LOW, HIGH),
     Pins(HIGH, HIGH, LOW), Pins(LOW, HIGH, LOW)}

\* time between two passes of loop(), in ms
DtSet == {20000, 40000}

\* mutant: a report without relay connection also counts as isolation
IsolatedIn_OrRelayDown(k) ==
    k.state = "isolated" \/ (k.received /\ ~k.ws_connected)

\* strcmp(k.state, "isolated") == 0 on a given KillswitchState
IsolatedIn(k) == k.state = "isolated"

\* isIsolated() on the current state
isIsolated == IsolatedIn(killswitch)

\* what one killswitch merge did to the isolation boolean
MergeEvents(before, after) ==
    (IF IsolatedIn(after) THEN {"iso"} ELSE {})
      \cup (IF ~IsolatedIn(before) /\ IsolatedIn(after) THEN {"set"} ELSE {})
      \cup (IF IsolatedIn(before) /\ ~IsolatedIn(after) THEN {"clr"} ELSE {})

\* the log record of a step that logs nothing.  Of a pass of loop() it
\* holds: dt (time since the previous reading of millis()), was (the
\* prev_* samples the pass started from), from and elapsed, the presses
\* accepted, the transitionTo calls, reads (readSensors() calls of the
\* state machine), beats (the watchdog trace of the pass), publish (the
\* values handed to mqtt.publish on the sensor topics), shown (what each
\* transitionTo call rendered as the sensor reading) and epd (the calls
\* made to the display driver, EPD_4IN2_V2_ left off their names)
NoEv ==
    [op |-> "init", topic |-> "", payload |-> "", from |-> HOME,
     elapsed |-> 0, up |-> FALSE, set |-> FALSE, down |-> FALSE,
     calls |-> <<>>, dt |-> 0,
     was |-> [up |-> HIGH, set |-> HIGH, down |-> HIGH],
     reads |-> 0, beats |-> <<>>, publish |-> <<>>, shown |-> <<>>,
     epd |-> <<>>, key |-> "", out_sz |-> 0, out |-> "", nul |-> 0]

\* mutant: a message on an unknown topic raises the change flag
mqttCallback_UnknownRaisesFlag(topic, payload) ==
    /\ pc \in {"setup", "loop"}
    /\ IF TooLarge(Len(payload))
       THEN UNCHANGED <<health, killswitch, gw_health, ks_changed, merged>>
       ELSE IF topic = TOPIC_HEALTH
       THEN /\ health' = MergeHealth(health, Extracted[<<topic, payload>>])
            /\ UNCHANGED <<killswitch, gw_health, ks_changed, merged>>
       ELSE IF topic = TOPIC_KILLSWITCH
       THEN /\ killswitch' = MergeKillswitch(killswitch,
                                           Extracted[<<topic, payload>>])
            /\ ks_changed' = TRUE
            /\ merged' = merged \cup MergeEvents(killswitch, killswitch')
            /\ UNCHANGED <<health, gw_health>>
       ELSE IF topic = TOPIC_GW_HEALTH
       THEN /\ gw_health' = MergeGwHealth(gw_health,
                                        Extracted[<<topic, payload>>])
            /\ UNCHANGED <<health, killswitch, ks_changed, merged>>
       ELSE /\ ks_changed' = TRUE
            /\ UNCHANGED <<health, killswitch, gw_health, merged>>
    /\ ev' = [NoEv EXCEPT !.op = "mqttCallback", !.topic = topic,
                          !.payload = payload]
    /\ UNCHANGED <<pc, framebuffer, nav, prev, db, quick, sensor,
                   last_sensor, fast_run, panel>>

\* mutant: the gateway-health branch also marks the health report received
mqttCallback_GwMarksHealth(topic, payload) ==
    /\ pc \in {"setup", "loop"}
    /\ IF TooLarge(Len(payload))
       THEN UNCHANGED <<health, killswitch, gw_health, ks_changed, merged>>
       ELSE IF topic = TOPIC_HEALTH
       THEN /\ health' = MergeHealth(health, Extracted[<<topic, payload>>])
            /\ UNCHANGED <<killswitch, gw_health, ks_changed, merged>>
       ELSE IF topic = TOPIC_KILLSWITCH
       THEN /\ killswitch' = MergeKillswitch(killswitch,
                                           Extracted[<<topic, payload>>])
            /\ ks_changed' = TRUE
            /\ merged' = merged \cup MergeEvents(killswitch, killswitch')
            /\ UNCHANGED <<health, gw_health>>
       ELSE IF topic = TOPIC_GW_HEALTH
       THEN /\ gw_health' = MergeGwHealth(gw_health,
                                        Extracted[<<topic, payload>>])
            /\ health' = [health EXCEPT !.received = TRUE]
            /\ UNCHANGED <<killswitch, ks_changed, merged>>
       ELSE UNCHANGED <<health, killswitch, gw_health, ks_changed, merged>>
    /\ ev' = [NoEv EXCEPT !.op = "mqttCallback", !.topic = topic,
                          !.payload = payload]
    /\ UNCHANGED <<pc, framebuffer, nav, prev, db, quick, sensor,
                   last_sensor, fast_run, panel>>

\* one call of the callback, made by mqtt.loop() in setup() or loop().
\* A pass of loop() calls mqtt.loop() once, and five times more inside
\* connectMQTT() after a reconnect, so several callbacks can precede one
\* navigation evaluation.
mqttCallback(topic, payload) ==
    /\ pc \in {"setup", "loop"}
    /\ IF TooLarge(Len(payload))
       THEN UNCHANGED <<health, killswitch, gw_health, ks_changed, merged>>
       ELSE IF topic = TOPIC_HEALTH
       THEN /\ health' = MergeHealth(health, Extracted[<<topic, payload>>])
            /\ UNCHANGED <<killswitch, gw_health, ks_changed, merged>>
       ELSE IF topic = TOPIC_KILLSWITCH
       THEN /\ killswitch' = MergeKillswitch(killswitch,
                                           Extracted[<<topic, payload>>])
            /\ ks_changed' = TRUE
            /\ merged' = merged \cup MergeEvents(killswitch, killswitch')
            /\ UNCHANGED <<health, gw_health>>
       ELSE IF topic = TOPIC_GW_HEALTH
       THEN /\ gw_health' = MergeGwHealth(gw_health,
                                        Extracted[<<topic, payload>>])
            /\ UNCHANGED <<health, killswitch, ks_changed, merged>>
       ELSE UNCHANGED <<health, killswitch, gw_health, ks_changed, merged>>
    /\ ev' = [NoEv EXCEPT !.op = "mqttCallback", !.topic = topic,
                          !.payload = payload]
    /\ UNCHANGED <<pc, framebuffer, nav, prev, db, quick, sensor,
                   last_sensor, fast_run, panel>>

(***************************************************************************)
(* Navigation: transitionTo                                                *)
(***************************************************************************)
\* mutant: entering isolation no longer forces a full refresh
RefreshFull_NoEntering(from, to, fast_count) ==
    (to = HOME /\ (from = ISOLATED \/ from = ISOLATED_HOME))
      \/ fast_count % FULL_REFRESH_EVERY = 0

\* mutant: leaving isolation no longer forces a full refresh
RefreshFull_NoLeaving(from, to, fast_count) ==
    (to = ISOLATED /\ from # ISOLATED /\ from # ISOLATED_HOME)
      \/ fast_count % FULL_REFRESH_EVERY = 0

\* mutant: the periodic full refresh comes every sixth transition
RefreshFull_EverySixth(from, to, fast_count) ==
    (to = ISOLATED /\ from # ISOLATED /\ from # ISOLATED_HOME)
      \/ (to = HOME /\ (from = ISOLATED \/ from = ISOLATED_HOME))
      \/ fast_count % (FULL_REFRESH_EVERY + 1) = 0

\* mutant: the counter is incremented before the periodic test
RefreshFull_PreIncrement(from, to, fast_count) ==
    (to = ISOLATED /\ from # ISOLATED /\ from # ISOLATED_HOME)
      \/ (to = HOME /\ (from = ISOLATED \/ from = ISOLATED_HOME))
      \/ (fast_count + 1) % FULL_REFRESH_EVERY = 0

\* bool full = entering_isolation || leaving_isolation || (count % N == 0)
RefreshFull(from, to, fast_count) ==
    LET entering_isolation ==
            to = ISOLATED /\ from # ISOLATED /\ from # ISOLATED_HOME
        leaving_isolation ==
            to = HOME /\ (from = ISOLATED \/ from = ISOLATED_HOME)
    IN entering_isolation \/ leaving_isolation
         \/ fast_count % FULL_REFRESH_EVERY = 0

\* mutant: transitionTo does not test the framebuffer
transitionTo_NoGuard(n, to) ==
    [screen |-> to,
     last_transition |-> 0,
     last_home_refresh |->
         IF to = HOME \/ to = ISOLATED_HOME THEN 0
         ELSE n.last_home_refresh,
     fast_count |-> n.fast_count + 1]

\* mutant: every transition restarts the home refresh period
transitionTo_AlwaysHomeStamp(n, to) ==
    IF ~framebuffer THEN n
    ELSE [screen |-> to,
          last_transition |-> 0,
          last_home_refresh |-> 0,
          fast_count |-> n.fast_count + 1]

\* NavState after transitionTo(to); millis() is taken after the refresh
transitionTo(n, to) ==
    IF ~framebuffer THEN n
    ELSE [screen |-> to,
          last_transition |-> 0,
          last_home_refresh |->
              IF to = HOME \/ to = ISOLATED_HOME THEN 0
              ELSE n.last_home_refresh,
          fast_count |-> n.fast_count + 1]

\* the NAV log line of transitionTo(to) from NavState n; mode is the
\* display-driver sequence: "full", "fast", or "none" without framebuffer
NavLog(n, to, cause) ==
    [from |-> n.screen, to |-> to, cause |-> cause,
     index |-> n.fast_count,
     mode |-> IF ~framebuffer THEN "none"
              ELSE IF RefreshFull(n.screen, to, n.fast_count) THEN "full"
              ELSE "fast"]

\* a pass in progress: the NavState so far and the transitionTo calls made
Call(r, to, cause) ==
    [r EXCEPT !.nav = transitionTo(r.nav, to),
              !.calls = Append(r.calls, NavLog(r.nav, to, cause))]

(***************************************************************************)
(* Main: setup                                                             *)
(***************************************************************************)
SETUP_DELAY_MS == 1000

\* a + dt, saturated at cap
AgeAdd(a, dt, cap) == IF a + dt > cap THEN cap ELSE a + dt

\* the timestamps of NavState as seen dt later
NavLater(n, dt) ==
    [n EXCEPT !.last_transition = AgeAdd(@, dt, DETAIL_TIMEOUT_MS),
              !.last_home_refresh = AgeAdd(@, dt, HOME_REFRESH_MS)]

\* the debounce timestamps as seen dt later
DbLater(d, dt) ==
    [b \in DOMAIN d |-> AgeAdd(d[b], dt, DEBOUNCE_MS + 1)]

\* the driver calls of initDisplay(), made before the malloc
BootCalls == <<"Init", "Clear", "Init_Fast">>

\* mutant: a full refresh leaves the panel in its full initialisation
Refresh_NoFastInit(mode) ==
    IF mode = "full" THEN <<"Init", "Display">>
    ELSE IF mode = "fast" THEN <<"Display_Fast">>
    ELSE <<>>

\* the driver calls of the refresh of transitionTo: if (full) { Init;
\* Display; Init_Fast } else { Display_Fast }, none without framebuffer
Refresh(mode) ==
    IF mode = "full" THEN <<"Init", "Display", "Init_Fast">>
    ELSE IF mode = "fast" THEN <<"Display_Fast">>
    ELSE <<>>

RECURSIVE EpdOf(_)
\* the driver calls of the given transitionTo calls, in order
EpdOf(calls) ==
    IF calls = <<>> THEN <<>>
    ELSE Refresh(calls[1].mode) \o EpdOf(Tail(calls))

RECURSIVE PanelAfter(_, _)
\* the initialisation the panel is left in by the given driver calls
PanelAfter(p, epd) ==
    IF epd = <<>> THEN p
    ELSE PanelAfter(IF epd[1] = "Init" THEN "full"
                    ELSE IF epd[1] = "Init_Fast" THEN "fast"
                    ELSE p,
                    Tail(epd))

\* initDisplay(): malloc of the framebuffer succeeds (ok) or fails
initDisplay(ok) ==
    /\ pc = "boot"
    /\ pc' = "setup"
    /\ framebuffer' = ok
    /\ panel' = PanelAfter(panel, BootCalls)
    /\ ev' = [NoEv EXCEPT !.op = "initDisplay", !.epd = BootCalls]
    /\ UNCHANGED <<health, killswitch, gw_health, ks_changed, nav, prev,
                   db, merged, quick, sensor, last_sensor, fast_run>>

\* SensorData before initSensors()
SensorData0 == [ok |-> FALSE, co2 |-> 0]

\* the measurement the SCD4x delivers
READING == 415

\* readSCD4x() on SensorData s, ready telling whether the driver has a
\* measurement ready and reads it
readSCD4x(s, ready) ==
    IF s.ok /\ ready THEN [s EXCEPT !.co2 = READING] ELSE s

\* the values publishSensors() hands to mqtt.publish, online telling
\* whether mqtt.connected()
publishSensors(s, online) ==
    IF online /\ s.ok THEN <<s.co2>> ELSE <<>>

\* what transitionTo(to) renders as the sensor reading: the home page and
\* the breath page print the number when sensor.ok and a placeholder
\* ("Temp: --", "Sensors: offline") when not; the other pages and a missing
\* framebuffer show nothing
Shown(s, to) ==
    IF ~framebuffer \/ to \notin {HOME, ISOLATED_HOME, DETAIL_BREATH}
    THEN [as |-> "nothing", value |-> 0]
    ELSE IF s.ok THEN [as |-> "number", value |-> s.co2]
    ELSE [as |-> "placeholder", value |-> 0]

\* what the transitionTo calls of a pass render under SensorData s
ShownBy(s, calls) == [i \in 1..Len(calls) |-> Shown(s, calls[i].to)]

RECURSIVE FastRun(_, _)
\* refreshes since the last Full one after the given transitionTo calls
FastRun(run, calls) ==
    IF calls = <<>> THEN run
    ELSE FastRun(IF calls[1].mode = "full" THEN 0
                 ELSE IF calls[1].mode = "fast" THEN run + 1
                 ELSE run,
                 Tail(calls))

\* how setup() finds the sensor and the broker: found (the SCD4x answers
\* begin()), got (the readSCD4x() call of setup that returns a measurement:
\* 1..15 in the wait loop, 16 the readSensors() after it, 0 none), online
\* (mqtt.connected() in publishSensors)
SensorRun(found, got, online) ==
    [found |-> found, got |-> got, online |-> online]

\* iterations of the wait loop of setup(), one second each
SetupWaits(run) ==
    IF run.found /\ run.got >= 1 /\ run.got <= SETUP_WAITS THEN run.got
    ELSE SETUP_WAITS

\* setup() from initSensors() on: the wait for a first reading,
\* readSensors(), publishSensors() and transitionTo(HOME)
setup(run) ==
    /\ pc = "setup"
    /\ pc' = "loop"
    /\ LET took == SETUP_DELAY_MS + SetupWaits(run) * SETUP_WAIT_MS
           s    == readSCD4x([SensorData0 EXCEPT !.ok = run.found],
                             run.got >= 1)
           r    == Call([nav |-> NavLater(nav, took), calls |-> <<>>],
                        HOME, "setup")
       IN /\ nav' = r.nav
          /\ sensor' = s
          /\ fast_run' = FastRun(fast_run, r.calls)
          /\ panel' = PanelAfter(panel, EpdOf(r.calls))
          /\ ev' = [NoEv EXCEPT !.op = "setup", !.calls = r.calls,
                                !.dt = took,
                                !.epd = EpdOf(r.calls),
                                !.publish = publishSensors(s, run.online),
                                !.shown = ShownBy(s, r.calls)]
          /\ db' = DbLater(db, took)
    /\ last_sensor' = 0
    /\ UNCHANGED <<framebuffer, health, killswitch, gw_health, ks_changed,
                   prev, merged, quick>>

(***************************************************************************)
(* Main: loop                                                              *)
(***************************************************************************)
NONE == "none"

cycle_normal == <<HOME, DETAIL_BREATH, DETAIL_NERVE>>
cycle_isolated == <<ISOLATED, ISOLATED_HOME, DETAIL_BREATH, DETAIL_NERVE>>

\* index (1-based) of the first occurrence of cur in arr, 0 when absent
IndexOf(arr, cur) ==
    IF \E i \in 1..Len(arr) : arr[i] = cur
    THEN CHOOSE i \in 1..Len(arr) :
             arr[i] = cur /\ \A j \in 1..(i - 1) : arr[j] # cur
    ELSE 0

\* mutant: next stops at the last screen of the cycle instead of wrapping
cycleNext_NoWrap(arr, cur) ==
    LET i == IndexOf(arr, cur) IN
    IF i = 0 THEN arr[1] ELSE arr[IF i < Len(arr) THEN i + 1 ELSE i]

\* arr[(i + 1) % n] for the 0-based index i of cur, arr[0] when absent
cycleNext(arr, cur) ==
    LET i == IndexOf(arr, cur) IN
    IF i = 0 THEN arr[1] ELSE arr[(((i - 1) + 1) % Len(arr)) + 1]

\* mutant: previous stops at the first screen of the cycle
cyclePrev_NoWrap(arr, cur) ==
    LET i == IndexOf(arr, cur) IN
    IF i = 0 THEN arr[1] ELSE arr[IF i > 1 THEN i - 1 ELSE i]

\* arr[(i - 1 + n) % n] for the 0-based index i of cur, arr[0] when absent
cyclePrev(arr, cur) ==
    LET i == IndexOf(arr, cur) IN
    IF i = 0 THEN arr[1]
    ELSE arr[(((i - 1) - 1 + Len(arr)) % Len(arr)) + 1]

\* mutant: the buttons always walk the normal cycle
CycleOf_AlwaysNormal(isolated) == cycle_normal

\* const Screen *cycle = isolated ? cycle_isolated : cycle_normal
CycleOf(isolated) == IF isolated THEN cycle_isolated ELSE cycle_normal

\* mutant: the override leaves isolation but never enters it
KsTarget_OnlyLeaves(changed, isolated, screen) ==
    IF ~changed THEN NONE
    ELSE IF ~isolated /\ (screen = ISOLATED \/ screen = ISOLATED_HOME)
    THEN HOME
    ELSE NONE

\* mutant: the override enters Isolated from Home only
KsTarget_HomeOnly(changed, isolated, screen) ==
    IF ~changed THEN NONE
    ELSE IF isolated /\ screen = HOME THEN ISOLATED
    ELSE IF ~isolated /\ (screen = ISOLATED \/ screen = ISOLATED_HOME)
    THEN HOME
    ELSE NONE

\* mutant: the override leaves isolation from Isolated only
KsTarget_NoLeaveHome(changed, isolated, screen) ==
    IF ~changed THEN NONE
    ELSE IF isolated /\ screen # ISOLATED /\ screen # ISOLATED_HOME
    THEN ISOLATED
    ELSE IF ~isolated /\ screen = ISOLATED THEN HOME
    ELSE NONE

\* the if (ks_changed) block: the screen it transitions to, or NONE
KsTarget(changed, isolated, screen) ==
    IF ~changed THEN NONE
    ELSE IF isolated /\ screen # ISOLATED /\ screen # ISOLATED_HOME
    THEN ISOLATED
    ELSE IF ~isolated /\ (screen = ISOLATED \/ screen = ISOLATED_HOME)
    THEN HOME
    ELSE NONE

\* mutant: case ISOLATED_HOME falls through into the detail timeout
AutoTarget_IsoFallthrough(n, isolated) ==
    CASE n.screen = HOME ->
           IF n.last_home_refresh >= HOME_REFRESH_MS THEN HOME ELSE NONE
      [] n.screen \in {DETAIL_BREATH, DETAIL_NERVE, ISOLATED_HOME} ->
           IF n.last_transition >= DETAIL_TIMEOUT_MS
           THEN (IF isolated THEN ISOLATED ELSE HOME)
           ELSE NONE
      [] OTHER -> NONE

\* mutant: the detail timeout returns to Home even under isolation
AutoTarget_AlwaysHome(n, isolated) ==
    CASE n.screen = HOME ->
           IF n.last_home_refresh >= HOME_REFRESH_MS THEN HOME ELSE NONE
      [] n.screen \in {DETAIL_BREATH, DETAIL_NERVE} ->
           IF n.last_transition >= DETAIL_TIMEOUT_MS THEN HOME ELSE NONE
      [] OTHER -> NONE

\* mutant: Home is never re-rendered
AutoTarget_NoHomeRefresh(n, isolated) ==
    CASE n.screen \in {DETAIL_BREATH, DETAIL_NERVE} ->
           IF n.last_transition >= DETAIL_TIMEOUT_MS
           THEN (IF isolated THEN ISOLATED ELSE HOME)
           ELSE NONE
      [] OTHER -> NONE

\* the switch of the no-button branch: the screen it transitions to, or NONE
AutoTarget(n, isolated) ==
    CASE n.screen = HOME ->
           IF n.last_home_refresh >= HOME_REFRESH_MS THEN HOME ELSE NONE
      [] n.screen \in {DETAIL_BREATH, DETAIL_NERVE} ->
           IF n.last_transition >= DETAIL_TIMEOUT_MS
           THEN (IF isolated THEN ISOLATED ELSE HOME)
           ELSE NONE
      [] OTHER -> NONE

\* mutant: a falling edge is accepted whatever the time since the last one
Pressed_NoDebounce(prev_b, cur_b, age) ==
    prev_b = HIGH /\ cur_b = LOW

\* prev == HIGH && cur == LOW && (now - db) > DEBOUNCE_MS
Pressed(prev_b, cur_b, age) ==
    prev_b = HIGH /\ cur_b = LOW /\ age > DEBOUNCE_MS

\* readSensors() called by the state machine
readSensors(r) == [r EXCEPT !.reads = @ + 1]

\* mutant: DOWN is tested before UP
StateMachine_DownFirst(r, isolated, up, down) ==
    IF down THEN Call(r, cyclePrev(CycleOf(isolated), r.nav.screen), "down")
    ELSE IF up
    THEN Call(r, cycleNext(CycleOf(isolated), r.nav.screen), "up")
    ELSE IF AutoTarget(r.nav, isolated) = NONE THEN r
    ELSE IF r.nav.screen = HOME
    THEN Call(readSensors(r), AutoTarget(r.nav, isolated), "home")
    ELSE Call(r, AutoTarget(r.nav, isolated), "detail")

\* mutant: the timeouts are evaluated after a button as well
StateMachine_ButtonThenTimeout(r, isolated, up, down) ==
    LET r1 == IF up
              THEN Call(r, cycleNext(CycleOf(isolated), r.nav.screen), "up")
              ELSE IF down
              THEN Call(r, cyclePrev(CycleOf(isolated), r.nav.screen), "down")
              ELSE r
    IN IF AutoTarget(r.nav, isolated) = NONE THEN r1
       ELSE IF r.nav.screen = HOME
       THEN Call(readSensors(r1), AutoTarget(r.nav, isolated), "home")
       ELSE Call(r1, AutoTarget(r.nav, isolated), "detail")

\* the state machine after the ks_changed block: buttons, else timeouts
\* (case HOME calls readSensors() before its transitionTo)
StateMachine(r, isolated, up, down) ==
    IF up THEN Call(r, cycleNext(CycleOf(isolated), r.nav.screen), "up")
    ELSE IF down
    THEN Call(r, cyclePrev(CycleOf(isolated), r.nav.screen), "down")
    ELSE IF AutoTarget(r.nav, isolated) = NONE THEN r
    ELSE IF r.nav.screen = HOME
    THEN Call(readSensors(r), AutoTarget(r.nav, isolated), "home")
    ELSE Call(r, AutoTarget(r.nav, isolated), "detail")

\* mutant: the ks_changed block does not return after its transitionTo
Navigate_NoReturn(n, changed, isolated, up, down) ==
    LET r0     == [nav |-> n, calls |-> <<>>, reads |-> 0]
        forced == KsTarget(changed, isolated, n.screen)
    IN StateMachine(IF forced # NONE THEN Call(r0, forced, "ks") ELSE r0,
                    isolated, up, down)

\* the navigation of one pass: the ks_changed block returns after its
\* transitionTo, otherwise the state machine runs
Navigate(n, changed, isolated, up, down) ==
    LET r0     == [nav |-> n, calls |-> <<>>, reads |-> 0]
        forced == KsTarget(changed, isolated, n.screen)
    IN IF forced # NONE THEN Call(r0, forced, "ks")
       ELSE StateMachine(r0, isolated, up, down)

\* the state of the station: WiFi.status() == WL_CONNECTED at the start of
\* the pass (no reconnect), or a reconnect in which the link comes up after
\* polls polls of the retry loop (not within the loop when polls exceeds 20)
Wifi(reconnect, polls) == [reconnect |-> reconnect, polls |-> polls]
CONNECTED == Wifi(FALSE, 0)

\* mutant: the retry loop polls until the link is up
RetryCount_Unbounded(w) == w.polls

\* iterations of for (i = 0; i < 20 && WiFi.status() != WL_CONNECTED; i++)
RetryCount(w) == IF w.polls < WIFI_RETRIES THEN w.polls ELSE WIFI_RETRIES

\* mqtt.connected() when the pass reaches publishSensors(): the link is up
\* and connectMQTT() has its connection (a broker that refuses it leaves
\* the pass as a link that stays down does: nothing is published)
LinkUp(w) == ~w.reconnect \/ w.polls <= WIFI_RETRIES

RECURSIVE Retries(_)
\* for (i < 20 && status != WL_CONNECTED) { delay(500); esp_task_wdt_reset(); }
Retries(k) == IF k = 0 THEN <<>> ELSE <<"poll", "wdt">> \o Retries(k - 1)

\* mutant: the retry loop does not reset the watchdog
Beats_NoRetryReset(w, calls) ==
    <<"wdt">>
      \o (IF w.reconnect
          THEN <<"begin">> \o [i \in 1..RetryCount(w) |-> "poll"]
          ELSE <<>>)
      \o (IF \E i \in 1..Len(calls) : calls[i].mode # "none"
          THEN <<"refresh", "wdt">> ELSE <<>>)

\* the watchdog trace of one pass: esp_task_wdt_reset() at the top, the
\* reconnect block, and the display refresh and reset of transitionTo
\* (which returns before both when there is no framebuffer)
Beats(w, calls) ==
    <<"wdt">>
      \o (IF w.reconnect THEN <<"begin">> \o Retries(RetryCount(w))
          ELSE <<>>)
      \o (IF \E i \in 1..Len(calls) : calls[i].mode # "none"
          THEN <<"refresh", "wdt">> ELSE <<>>)

\* the least time explored between two readings of millis() at the top of
\* loop(): delay(100) unless the previous pass returned from the ks_changed
\* block without touching the display, plus the delays of the reconnect
\* block
MinPass(w) ==
    (IF quick = 0 \/ quick > MaxQuick \/ framebuffer THEN LOOP_DELAY_MS
     ELSE 0)
      + (IF w.reconnect
         THEN WIFI_BEGIN_DELAY_MS + RetryCount(w) * WIFI_POLL_MS
         ELSE 0)

\* one pass of loop(): dt after the previous pass, the station in state w,
\* the three pins reading cur and the sensor driver ready or not.  The
\* callbacks that mqtt.loop() makes in the pass are the mqttCallback steps
\* before it.  r is the one outcome of the navigation of the pass.
loop(cur, dt, w, ready) ==
    /\ pc = "loop"
    /\ nav.fast_count < MaxTransitions
    /\ dt >= MinPass(w)
    /\ LET n    == NavLater(nav, dt)
           ls   == AgeAdd(last_sensor, dt, SENSOR_INTERVAL_MS)
           due  == ls >= SENSOR_INTERVAL_MS
           s1   == IF due THEN readSCD4x(sensor, ready) ELSE sensor
           d    == DbLater(db, dt)
           up   == Pressed(prev.up, cur.up, d.up)
           set  == Pressed(prev.set, cur.set, d.set)
           down == Pressed(prev.down, cur.down, d.down)
       IN \E r \in {Navigate(n, ks_changed, isIsolated, up, down)} :
          /\ db' = [up   |-> IF up THEN 0 ELSE d.up,
                    set  |-> IF set THEN 0 ELSE d.set,
                    down |-> IF down THEN 0 ELSE d.down]
          /\ prev' = cur
          /\ nav' = r.nav
          /\ last_sensor' = IF due THEN 0 ELSE ls
          /\ sensor' = IF r.reads > 0 THEN readSCD4x(s1, ready) ELSE s1
          /\ fast_run' = FastRun(fast_run, r.calls)
          /\ panel' = PanelAfter(panel, EpdOf(r.calls))
          /\ ev' = [NoEv EXCEPT
                      !.epd = EpdOf(r.calls),
                      !.op = "loop", !.from = n.screen,
                      !.elapsed = n.last_transition,
                      !.up = up, !.set = set, !.down = down,
                      !.calls = r.calls, !.dt = dt, !.was = prev,
                      !.reads = r.reads, !.beats = Beats(w, r.calls),
                      !.publish = IF due THEN publishSensors(s1, LinkUp(w))
                                  ELSE <<>>,
                      !.shown = ShownBy(sensor', r.calls)]
          /\ quick' = IF Len(r.calls) = 1 /\ r.calls[1].cause = "ks"
                       THEN (IF quick > MaxQuick THEN quick ELSE quick + 1)
                       ELSE 0
    /\ ks_changed' = FALSE
    /\ merged' = {}
    /\ UNCHANGED <<pc, framebuffer, health, killswitch, gw_health>>

(***************************************************************************)
(* Specification                                                           *)
(***************************************************************************)
Init ==
    /\ pc = "boot"
    /\ framebuffer = FALSE
    /\ health = HealthState0
    /\ killswitch = KillswitchState0
    /\ gw_health = GatewayHealth0
    /\ ks_changed = FALSE
    /\ nav = NavState0
    /\ prev = [up |-> HIGH, set |-> HIGH, down |-> HIGH]
    /\ db = [up |-> 0, set |-> 0, down |-> 0]
    /\ ev = NoEv
    /\ merged = {}
    /\ quick = 0
    /\ sensor = SensorData0
    /\ last_sensor = 0
    /\ fast_run = 0
    /\ panel = "off"

\* the navigation under killswitch reports, button samples and time
Next ==
    \/ \E ok \in BOOLEAN : initDisplay(ok)
    \/ \E m \in NavMessages : mqttCallback(m[1], m[2])
    \/ setup(SensorRun(TRUE, 1, TRUE))
    \/ \E cur \in Samples, dt \in DtSet : loop(cur, dt, CONNECTED, TRUE)

Spec == Init /\ [][Next]_vars

\* the ingestor under every message, with the buttons left alone
NextIngest ==
    \/ \E ok \in BOOLEAN : initDisplay(ok)
    \/ \E m \in Messages : mqttCallback(m[1], m[2])
    \/ setup(SensorRun(TRUE, 1, TRUE))
    \/ loop(Pins(HIGH, HIGH, HIGH), SENSOR_INTERVAL_MS, CONNECTED, TRUE)

SpecIngest == Init /\ [][NextIngest]_vars

\* the navigation under killswitch reports with and without state, with
\* health and gateway-health reports arriving as well
FlowMessages ==
    {<<TOPIC_KILLSWITCH, K_ISO>>, <<TOPIC_KILLSWITCH, K_PART>>,
     <<TOPIC_HEALTH, H_FULL>>, <<TOPIC_GW_HEALTH, G_FULL>>}

NextFlow ==
    \/ \E ok \in BOOLEAN : initDisplay(ok)
    \/ \E m \in FlowMessages : mqttCallback(m[1], m[2])
    \/ setup(SensorRun(TRUE, 1, TRUE))
    \/ \E cur \in {Pins(HIGH, HIGH, HIGH), Pins(LOW, HIGH, HIGH)} :
          loop(cur, SENSOR_INTERVAL_MS, CONNECTED, TRUE)

SpecFlow == Init /\ [][NextFlow]_vars

\* passes a few milliseconds apart, and an idle minute: the debounce of
\* the buttons
DtShort == {20, HOME_REFRESH_MS}

NextDebounce ==
    \/ \E ok \in BOOLEAN : initDisplay(ok)
    \/ mqttCallback(TOPIC_KILLSWITCH, K_ISO)
    \/ setup(SensorRun(TRUE, 1, TRUE))
    \/ \E cur \in Samples, dt \in DtShort : loop(cur, dt, CONNECTED, TRUE)

SpecDebounce == Init /\ [][NextDebounce]_vars

\* the station: connected, or reconnecting with the link up at once, after
\* 1, 2 or 20 polls, or not within the retry loop
WifiSet ==
    {CONNECTED, Wifi(TRUE, 0), Wifi(TRUE, 1), Wifi(TRUE, 2),
     Wifi(TRUE, WIFI_RETRIES), Wifi(TRUE, WIFI_RETRIES + 5)}

NextWatchdog ==
    \/ \E ok \in BOOLEAN : initDisplay(ok)
    \/ \E m \in NavMessages : mqttCallback(m[1], m[2])
    \/ setup(SensorRun(TRUE, 1, TRUE))
    \/ \E cur \in {Pins(HIGH, HIGH, HIGH), Pins(LOW, HIGH, HIGH)},
          w \in WifiSet : loop(cur, SENSOR_INTERVAL_MS, w, TRUE)

SpecWatchdog == Init /\ [][NextWatchdog]_vars

\* the sensor: not found, found with a first measurement in the wait loop
\* of setup(), in the readSensors() after it, or not in setup() at all,
\* with the broker connected or not
SensorRuns ==
    {SensorRun(FALSE, 0, TRUE), SensorRun(TRUE, 1, TRUE),
     SensorRun(TRUE, SETUP_WAITS + 1, TRUE), SensorRun(TRUE, 0, TRUE),
     SensorRun(TRUE, 0, FALSE)}

NextSensor ==
    \/ \E ok \in BOOLEAN : initDisplay(ok)
    \/ mqttCallback(TOPIC_KILLSWITCH, K_ISO)
    \/ \E run \in SensorRuns : setup(run)
    \/ \E cur \in {Pins(HIGH, HIGH, HIGH), Pins(LOW, HIGH, HIGH)},
          w \in {CONNECTED, Wifi(TRUE, WIFI_RETRIES + 5)},
          ready \in BOOLEAN :
          loop(cur, HOME_REFRESH_MS, w, ready)

SpecSensor == Init /\ [][NextSensor]_vars

\* the ingestor under full, partial and malformed reports on each of the
\* three topics and an oversize one
MergeMessages ==
    {<<TOPIC_HEALTH, H_FULL>>, <<TOPIC_HEALTH, H_PART>>,
     <<TOPIC_HEALTH, H_BAD>>,
     <<TOPIC_KILLSWITCH, K_ISO>>, <<TOPIC_KILLSWITCH, K_PART>>,
     <<TOPIC_KILLSWITCH, K_BAD>>,
     <<TOPIC_GW_HEALTH, G_FULL>>, <<TOPIC_GW_HEALTH, G_PART>>,
     <<TOPIC_GW_HEALTH, G_NAN>>,
     <<TOPIC_KILLSWITCH, Padded(K_ISO, MQTT_MAX_LEN)>>}

NextMerge ==
    \/ \E ok \in BOOLEAN : initDisplay(ok)
    \/ \E m \in MergeMessages : mqttCallback(m[1], m[2])
    \/ setup(SensorRun(TRUE, 1, TRUE))
    \/ loop(Pins(HIGH, HIGH, HIGH), SENSOR_INTERVAL_MS, CONNECTED, TRUE)

SpecMerge == Init /\ [][NextMerge]_vars

(***************************************************************************)
(* The quoted-string extractor on its own: one call of jsonStr on a text,  *)
(* a key and a destination capacity                                        *)
(***************************************************************************)
\* destinations of 1..MaxCap bytes and the smallest one the ingestor uses
MaxCap == 9
Capacities == 1..MaxCap \cup {STATE_SZ}

ExtractKeys == {"state", "address", "up"}

\* texts with a short, a long, an empty, a spaced, an unquoted, an
\* unterminated and an escaped value, and with the key missing
ExtractTexts ==
    {"{\"state\":\"isolated\"}",
     "{\"state\": \"connected\",\"address\":\"0x12ab\"}",
     "{\"state\":\"isolated-by-killswitch\",\"up\":\"3d 4h\"}",
     "{\"state\":\"\",\"up\":\"12 days, 3:04\"}",
     "{\"state\":null,\"address\":   \"0x0123456789abcdef\"}",
     "{\"state\":\"open",
     "{\"state\":\"a\\\"b\",\"up\":7}",
     "{\"address\":\"0x12ab\",\"state\":\"ok\"}",
     "{\"up\":\"",
     "{}"}

InitExtract ==
    /\ pc = "boot"
    /\ framebuffer = FALSE
    /\ health = HealthState0
    /\ killswitch = KillswitchState0
    /\ gw_health = GatewayHealth0
    /\ ks_changed = FALSE
    /\ nav = NavState0
    /\ prev = [up |-> HIGH, set |-> HIGH, down |-> HIGH]
    /\ db = [up |-> 0, set |-> 0, down |-> 0]
    /\ \E json \in ExtractTexts, key \in ExtractKeys, out_sz \in Capacities :
          ev = [NoEv EXCEPT !.op = "call", !.payload = json, !.key = key,
                            !.out_sz = out_sz]
    /\ merged = {}
    /\ quick = 0
    /\ sensor = SensorData0
    /\ last_sensor = 0
    /\ fast_run = 0
    /\ panel = "off"

\* one call jsonStr(json, key, out, out_sz): the string left in out and the
\* 1-based position of the terminator written (out[0] or out[len])
callJsonStr ==
    /\ ev.op = "call"
    /\ \E s \in {jsonStr(ev.payload, ev.key, ev.out_sz)} :
          ev' = [ev EXCEPT !.op = "jsonStr", !.out = s, !.nul = Len(s) + 1]
    /\ UNCHANGED <<pc, framebuffer, health, killswitch, gw_health,
                   ks_changed, nav, prev, db, merged, quick, sensor,
                   last_sensor, fast_run, panel>>

NextExtract == callJsonStr

SpecExtract == InitExtract /\ [][NextExtract]_vars

(***************************************************************************)
(* Vocabulary of the properties                                            *)
(***************************************************************************)
IsoScreens == {ISOLATED, ISOLATED_HOME}
NormalScreens == {HOME, DETAIL_BREATH, DETAIL_NERVE}
DetailScreens == {DETAIL_BREATH, DETAIL_NERVE}

HealthKeys ==
    {"ha", "gw", "inet", "ha_api", "ha_ms", "gw_ms", "inet_ms", "mem",
     "disk", "msgs_24h", "up", "model"}
KillswitchKeys ==
    {"state", "address", "ws_connected", "isolated_at", "block_number"}
GwHealthKeys == {"ha_errors", "ha_reachable"}

\* "key": does not occur in the payload
KeyAbsent(payload, key) == strstr(payload, SearchKey(key)) = 0

\* the step taken is a pass of loop() / a call of mqttCallback
LoopStep == ev'.op = "loop"
CallbackStep == ev'.op = "mqttCallback"

\* the transitionTo calls of the last step that reached the display
Executed == {i \in 1..Len(ev.calls) : ev.calls[i].mode # "none"}

EnteringIsolation(c) == c.to = ISOLATED /\ c.from \notin IsoScreens
LeavingIsolation(c) == c.to = HOME /\ c.from \in IsoScreens

C2_PartialUpdateFrame ==
    [][(CallbackStep /\ Len(ev'.payload) < MQTT_MAX_LEN)
          => /\ ev'.topic = TOPIC_HEALTH =>
                  \A k \in HealthKeys :
                      KeyAbsent(ev'.payload, k) => health'[k] = health[k]
             /\ ev'.topic = TOPIC_KILLSWITCH =>
                  \A k \in KillswitchKeys :
                      KeyAbsent(ev'.payload, k)
                          => killswitch'[k] = killswitch[k]
             /\ ev'.topic = TOPIC_GW_HEALTH =>
                  \A k \in GwHealthKeys :
                      KeyAbsent(ev'.payload, k)
                          => gw_health'[k] = gw_health[k]]_vars

(***************************************************************************)
(* C3  No silent exit from the isolation banner: on Isolated or            *)
(* IsolatedHome, a pass with no UP/DOWN press accepted and no killswitch   *)
(* message merged leaves the screen as it is, whatever time has elapsed.   *)
(***************************************************************************)
C3_NoSilentExit ==
    [][(LoopStep /\ nav.screen \in IsoScreens /\ ~ks_changed
          /\ ~ev'.up /\ ~ev'.down)
          => (nav'.screen = nav.screen /\ ev'.calls = <<>>)]_vars

\* Isolated still shown after both the detail and the home periods passed
C3_Witness ==
    /\ ev.op = "loop" /\ ev.calls = <<>> /\ ~ev.up /\ ~ev.down
    /\ nav.screen = ISOLATED
    /\ nav.last_transition >= DETAIL_TIMEOUT_MS
    /\ nav.last_home_refresh >= HOME_REFRESH_MS

(***************************************************************************)
(* C4  Forced transition only on an isolation edge: while isolated on a    *)
(* detail screen, a pass in which the isolation boolean did not change, no *)
(* button was pressed and the dwell has not elapsed keeps the screen, even *)
(* if a killswitch message was merged.                                     *)
(***************************************************************************)
C4_ForcedOnlyOnEdge ==
    [][(LoopStep /\ isIsolated /\ nav.screen \in DetailScreens
          /\ merged \cap {"set", "clr"} = {}
          /\ ~ev'.up /\ ~ev'.down
          /\ ev'.elapsed < DETAIL_TIMEOUT_MS)
          => nav'.screen = nav.screen]_vars

(***************************************************************************)
(* C5  Leaving isolation.  As claimed: when a killswitch message made the  *)
(* isolation boolean false while the screen is Isolated or IsolatedHome,   *)
(* the navigation evaluation of that pass transitions to Home.             *)
(***************************************************************************)
C5_LeavingIsolation_Claimed ==
    [][(LoopStep /\ "clr" \in merged /\ nav.screen \in IsoScreens)
          => nav'.screen = HOME]_vars

\* C5 as amended: a pass that finds the change flag raised and the
\* isolation boolean false (no later message of the same pass made it true
\* again) on Isolated or IsolatedHome makes the forced transition to Home.
C5_LeavingIsolation ==
    [][(LoopStep /\ ks_changed /\ ~isIsolated /\ nav.screen \in IsoScreens)
          => /\ nav'.screen = HOME
             /\ Len(ev'.calls) = 1
             /\ ev'.calls[1].cause = "ks"]_vars

\* a forced return to Home from IsolatedHome
C5_Witness ==
    /\ ev.op = "loop" /\ Len(ev.calls) = 1
    /\ ev.calls[1].cause = "ks" /\ ev.calls[1].from = ISOLATED_HOME
    /\ nav.screen = HOME /\ ~isIsolated

(***************************************************************************)
(* C6  Override precedence: in a pass where the isolation override fires,  *)
(* the forced transition is the only transitionTo call, whatever buttons   *)
(* were pressed and whatever timeout has expired.                          *)
(***************************************************************************)
C6_OverridePrecedence ==
    [][(LoopStep /\ ks_changed
          /\ \/ isIsolated /\ nav.screen \notin IsoScreens
             \/ ~isIsolated /\ nav.screen \in IsoScreens)
          => /\ Len(ev'.calls) = 1
             /\ ev'.calls[1].cause = "ks"
             /\ ev'.calls[1].to = (IF isIsolated THEN ISOLATED ELSE HOME)
             /\ framebuffer => nav'.screen = ev'.calls[1].to
             /\ framebuffer => nav'.fast_count = nav.fast_count + 1]_vars

\* the override fired in a pass that also accepted an UP press, with the
\* detail timeout expired
C6_Witness ==
    /\ ev.op = "loop" /\ ev.up /\ Len(ev.calls) = 1
    /\ ev.calls[1].cause = "ks" /\ ev.calls[1].from = DETAIL_BREATH
    /\ ev.elapsed >= DETAIL_TIMEOUT_MS
    /\ nav.screen = ISOLATED

(***************************************************************************)
(* C7  Entering Isolated is always a Full refresh: every executed          *)
(* transition into Isolated from a screen other than Isolated and          *)
(* IsolatedHome is Full, for every value of the transition counter.        *)
(***************************************************************************)
C7_EnteringIsFull ==
    \A i \in Executed :
        EnteringIsolation(ev.calls[i]) => ev.calls[i].mode = "full"

\* Home -> Isolated, Full, at a count that is no multiple of 5
C7_Witness ==
    \E i \in Executed :
        /\ ev.calls[i].from = HOME /\ ev.calls[i].to = ISOLATED
        /\ ev.calls[i].index % FULL_REFRESH_EVERY # 0
        /\ ev.calls[i].mode = "full"

(***************************************************************************)
(* C8  Leaving isolation is always a Full refresh: every executed          *)
(* transition into Home from Isolated or IsolatedHome is Full, for every   *)
(* value of the transition counter.                                        *)
(***************************************************************************)
C8_LeavingIsFull ==
    \A i \in Executed :
        LeavingIsolation(ev.calls[i]) => ev.calls[i].mode = "full"

\* IsolatedHome -> Home, Full, at a count that is no multiple of 5
C8_Witness ==
    \E i \in Executed :
        /\ ev.calls[i].from = ISOLATED_HOME /\ ev.calls[i].to = HOME
        /\ ev.calls[i].index % FULL_REFRESH_EVERY # 0
        /\ ev.calls[i].mode = "full"

(***************************************************************************)
(* C9  Periodic refresh rule: an executed transition that neither enters   *)
(* Isolated from a non-isolated screen nor leaves Isolated/IsolatedHome    *)
(* for Home is Full exactly when the number of transitions executed before *)
(* it is a multiple of 5, and Fast otherwise.                              *)
(***************************************************************************)
C9_PeriodicRefresh ==
    \A i \in Executed :
        LET c == ev.calls[i] IN
        /\ (~EnteringIsolation(c) /\ ~LeavingIsolation(c))
              => (c.mode = "full" <=> c.index % 5 = 0)
        /\ c.mode \in {"full", "fast"}
        /\ i = Len(ev.calls) => nav.fast_count = c.index + 1

\* IsolatedHome -> DetailEnvironment under isolation as the sixth
\* transition: Full by the periodic rule alone
C9_Witness ==
    /\ isIsolated
    /\ \E i \in Executed :
          /\ ev.calls[i].from = ISOLATED_HOME
          /\ ev.calls[i].to = DETAIL_BREATH
          /\ ev.calls[i].index = 5
          /\ ev.calls[i].mode = "full"

(***************************************************************************)
(* C10  Oversize-payload rejection: a payload of 512 bytes or more, on any *)
(* topic, changes no field of any sub-report, flips no received flag and   *)
(* does not raise the state-changed flag.                                  *)
(***************************************************************************)
C10_OversizeRejected ==
    [][(CallbackStep /\ Len(ev'.payload) >= 512)
          => UNCHANGED <<health, killswitch, gw_health, ks_changed>>]_vars

\* a 512-byte killswitch report was delivered and dropped
C10_Witness ==
    /\ ev.op = "mqttCallback" /\ ev.topic = TOPIC_KILLSWITCH
    /\ Len(ev.payload) = 512
    /\ ~killswitch.received /\ ~ks_changed

(***************************************************************************)
(* Malformed values                                                        *)
(***************************************************************************)
HealthStrKeys == {"up", "model"}
HealthIntKeys == HealthKeys \ HealthStrKeys
KillswitchStrKeys == {"state", "address", "isolated_at"}
KillswitchIntKeys == {"block_number"}
GwIntKeys == {"ha_errors"}

\* the text that follows "key": in the payload, blanks skipped
ValueText(payload, key) ==
    SkipSpaces(From(payload,
                    strstr(payload, SearchKey(key)) + Len(SearchKey(key))))

\* the key is there and its value is no quoted string: no opening quote, or
\* no closing quote after it
StrMalformed(payload, key) ==
    /\ ~KeyAbsent(payload, key)
    /\ LET v == ValueText(payload, key) IN
       \/ Len(v) = 0
       \/ SubSeq(v, 1, 1) # "\""
       \/ strchr(Tail(v), "\"") = 0

\* the key is there and its value does not start as a decimal number
IntMalformed(payload, key) ==
    /\ ~KeyAbsent(payload, key)
    /\ LET v == ValueText(payload, key)
           u == IF Len(v) > 0 /\ SubSeq(v, 1, 1) \in {"-", "+"}
                THEN Tail(v) ELSE v
       IN Len(u) = 0 \/ DigitVal(SubSeq(u, 1, 1)) < 0

(***************************************************************************)
(* C11  Malformed field fails soft: when an accepted payload carries a key *)
(* whose value is malformed (a string value without opening or closing     *)
(* quote, non-numeric text where an integer is expected), the field of     *)
(* that key keeps the value it had before the merge.                       *)
(***************************************************************************)
C11_MalformedFailsSoft ==
    [][(CallbackStep /\ Len(ev'.payload) < MQTT_MAX_LEN)
          => /\ ev'.topic = TOPIC_HEALTH =>
                  /\ \A k \in HealthStrKeys :
                        StrMalformed(ev'.payload, k) => health'[k] = health[k]
                  /\ \A k \in HealthIntKeys :
                        IntMalformed(ev'.payload, k) => health'[k] = health[k]
             /\ ev'.topic = TOPIC_KILLSWITCH =>
                  /\ \A k \in KillswitchStrKeys :
                        StrMalformed(ev'.payload, k)
                            => killswitch'[k] = killswitch[k]
                  /\ \A k \in KillswitchIntKeys :
                        IntMalformed(ev'.payload, k)
                            => killswitch'[k] = killswitch[k]
             /\ ev'.topic = TOPIC_GW_HEALTH =>
                  \A k \in GwIntKeys :
                      IntMalformed(ev'.payload, k)
                          => gw_health'[k] = gw_health[k]]_vars

\* the KillswitchState records that agree with k on state and differ in
\* the other fields
SameState(k) ==
    {[k EXCEPT !.received = r, !.ws_connected = w, !.address = o[1],
               !.isolated_at = o[2], !.block_number = o[3]] :
        r \in BOOLEAN, w \in BOOLEAN,
        o \in {<<"", "", 0>>, <<"4Abc", "12:00", 7>>}}

\* the message of the step is one the killswitch branch merges
KillswitchMerge ==
    ev'.topic = TOPIC_KILLSWITCH /\ Len(ev'.payload) < MQTT_MAX_LEN

(***************************************************************************)
(* C12  Isolation is derived solely from the killswitch state field: the   *)
(* isolation boolean is true exactly when killswitch.state is "isolated";  *)
(* a pass of loop() makes the same transitionTo calls with the same        *)
(* refresh modes and ends on the same screen for every value of the other  *)
(* killswitch fields; and a callback changes the boolean only through the  *)
(* state value of a killswitch report, health and gateway-health reports   *)
(* leaving the boolean, the change flag and the navigation state alone.    *)
(***************************************************************************)
C12_IsolationFromStateOnly ==
    [][/\ isIsolated <=> killswitch.state = "isolated"
       /\ LoopStep =>
            \A k2 \in SameState(killswitch) :
                Navigate(NavLater(nav, ev'.dt), ks_changed, IsolatedIn(k2),
                         ev'.up, ev'.down)
                  = [nav |-> nav', calls |-> ev'.calls, reads |-> ev'.reads]
       /\ (CallbackStep /\ KillswitchMerge) =>
            /\ isIsolated' <=>
                  Extracted[<<ev'.topic, ev'.payload>>].state = "isolated"
            /\ ks_changed' /\ nav' = nav
       /\ (CallbackStep /\ ~KillswitchMerge) =>
            /\ isIsolated' <=> isIsolated
            /\ ks_changed' = ks_changed /\ nav' = nav]_vars

\* a pass left Isolated for Home on a report without state, although that
\* report says the relay is down, with a health report merged as well
C12_Witness ==
    /\ ev.op = "loop" /\ Len(ev.calls) = 1
    /\ ev.calls[1].cause = "ks" /\ ev.calls[1].to = HOME
    /\ ev.calls[1].from = ISOLATED
    /\ killswitch.state = "" /\ killswitch.received
    /\ ~killswitch.ws_connected /\ health.received

\* the pass accepted a press of UP / DOWN that the state machine acted on:
\* no killswitch message since the previous pass
NextPress == LoopStep /\ ev'.up /\ ~ks_changed
PrevPress == LoopStep /\ ev'.down /\ ~ev'.up /\ ~ks_changed

\* the pass made exactly one transitionTo call, to screen to, and the
\* screen is to when there is a framebuffer to draw it in
Went(to, cause) ==
    /\ Len(ev'.calls) = 1
    /\ ev'.calls[1].to = to /\ ev'.calls[1].cause = cause
    /\ ev'.calls[1].from = nav.screen
    /\ framebuffer => nav'.screen = to

ScreensOf(arr) == {arr[i] : i \in 1..Len(arr)}

C15_DetailTimeout ==
    [][(LoopStep /\ nav.screen \in DetailScreens /\ ~ev'.up /\ ~ev'.down
          /\ ~(ks_changed /\ isIsolated))
          => IF ev'.elapsed >= 25000
             THEN Went(IF isIsolated THEN ISOLATED ELSE HOME, "detail")
             ELSE ev'.calls = <<>> /\ nav'.screen = nav.screen]_vars

\* DetailNetwork timed out into Isolated under isolation
C15_Witness ==
    /\ ev.op = "loop" /\ ~ev.up /\ ~ev.down /\ isIsolated
    /\ ev.elapsed >= 25000
    /\ Len(ev.calls) = 1 /\ ev.calls[1].cause = "detail"
    /\ ev.calls[1].from = DETAIL_NERVE /\ ev.calls[1].to = ISOLATED
    /\ nav.screen = ISOLATED

\* now - nav.last_home_refresh as the pass of this step reads it
HomeAge == NavLater(nav, ev'.dt).last_home_refresh

\* the pass of this step called readSensors() and then transitionTo(HOME),
\* which re-renders Home when there is a framebuffer to draw it in
HomeRefreshed ==
    /\ ev'.reads = 1
    /\ Len(ev'.calls) = 1
    /\ ev'.calls[1].from = HOME /\ ev'.calls[1].to = HOME
    /\ framebuffer => ev'.calls[1].mode # "none"
    /\ nav'.screen = HOME

Buttons == {"up", "set", "down"}

(***************************************************************************)
(* C17  Debounce suppression: for each button, a pass accepts a press only *)
(* on a sample that reads low after a high sample and more than 50 ms      *)
(* after the last accepted press of that button, and an accepted press     *)
(* restarts that interval; so a second low sample within the interval, or  *)
(* a button held low over consecutive passes, adds no press event to the   *)
(* one already accepted.                                                   *)
(***************************************************************************)
C17_DebounceSuppression ==
    [][LoopStep =>
          \A b \in Buttons :
              /\ ev'[b] => /\ prev[b] = HIGH /\ prev'[b] = LOW
                           /\ db[b] + ev'.dt > 50
                           /\ db'[b] = 0
              /\ (prev[b] = LOW /\ prev'[b] = LOW) => ~ev'[b]
              /\ (prev'[b] = LOW /\ db[b] + ev'.dt <= 50) => ~ev'[b]
              /\ ~ev'[b] => db'[b] = db[b] + ev'.dt \/ db'[b] > 50]_vars

\* a bounce of UP: low again after a high sample, 40 ms after the accepted
\* press, and no second press event
C17_Witness ==
    /\ ev.op = "loop" /\ ev.was.up = HIGH /\ prev.up = LOW
    /\ ~ev.up /\ db.up = 40

\* the watchdog trace of the last pass, closed by the esp_task_wdt_reset()
\* that opens the next pass
BeatsClosed == ev.beats \o <<"wdt">>

\* the positions of event e in a trace
At(trace, e) == {i \in 1..Len(trace) : trace[i] = e}

\* the pairs of consecutive heartbeats of a trace
ConsecutiveBeats(trace) ==
    {p \in At(trace, "wdt") \X At(trace, "wdt") :
        p[1] < p[2] /\ \A k \in (p[1] + 1)..(p[2] - 1) : trace[k] # "wdt"}

(***************************************************************************)
(* C18  Watchdog heartbeat discipline: every pass of loop() starts with a  *)
(* heartbeat, every iteration of the Wi-Fi retry loop and every display    *)
(* refresh is directly followed by one, and so between two consecutive     *)
(* heartbeats there is at most one display refresh and at most one retry   *)
(* step: no interval between heartbeats grows with the number of retries   *)
(* or of refreshes.                                                        *)
(***************************************************************************)
C18_HeartbeatDiscipline ==
    ev.op = "loop" =>
        /\ ev.beats[1] = "wdt"
        /\ \A i \in At(BeatsClosed, "poll") \cup At(BeatsClosed, "refresh") :
              BeatsClosed[i + 1] = "wdt"
        /\ \A p \in ConsecutiveBeats(BeatsClosed) :
              /\ Cardinality({k \in p[1]..p[2] :
                                  BeatsClosed[k] = "refresh"}) <= 1
              /\ Cardinality({k \in p[1]..p[2] :
                                  BeatsClosed[k] = "poll"}) <= 1
        /\ Cardinality(At(ev.beats, "refresh")) = Cardinality(Executed)

\* a pass that ran all 20 retries of the reconnect and then refreshed the
\* display
C18_Witness ==
    /\ ev.op = "loop"
    /\ Cardinality(At(ev.beats, "poll")) = 20
    /\ Cardinality(At(ev.beats, "refresh")) = 1
    /\ Len(ev.calls) = 1 /\ ev.calls[1].mode = "full"

(***************************************************************************)
(* C19  received is monotonic: for each of the health, killswitch and      *)
(* gateway-health sub-reports, once received is true it is true after      *)
(* every later step, whatever message arrives (well-formed, partial,       *)
(* malformed, oversize or on an unknown topic).                            *)
(***************************************************************************)
C19_ReceivedMonotonic ==
    [][/\ health.received => health'.received
       /\ killswitch.received => killswitch'.received
       /\ gw_health.received => gw_health'.received]_vars

\* all three sub-reports received, and still so after an oversize
\* killswitch report was dropped
C19_Witness ==
    /\ ev.op = "mqttCallback" /\ ev.topic = TOPIC_KILLSWITCH
    /\ Len(ev.payload) = MQTT_MAX_LEN
    /\ health.received /\ killswitch.received /\ gw_health.received

(***************************************************************************)
(* C20  Unknown topics are a no-op: a message on a topic other than the    *)
(* health, killswitch and gateway-health topics changes no field of any    *)
(* sub-report, no received flag and not the state-changed flag.            *)
(***************************************************************************)
C20_UnknownTopicNoOp ==
    [][(CallbackStep
          /\ ev'.topic \notin {TOPIC_HEALTH, TOPIC_KILLSWITCH,
                               TOPIC_GW_HEALTH})
          => UNCHANGED <<health, killswitch, gw_health, ks_changed, nav>>
      ]_vars

\* a well-formed "isolated" report on another topic left the killswitch
\* state "connected" and the change flag down
C20_Witness ==
    /\ ev.op = "mqttCallback" /\ ev.topic = TOPIC_OTHER
    /\ ev.payload = K_ISO
    /\ killswitch.state = "connected" /\ ~ks_changed
    /\ ~health.received

(***************************************************************************)
(* C21  One corrupt field never blocks the rest of the message: when an    *)
(* accepted payload has one key with a malformed value and its other keys  *)
(* well-formed, the field of every well-formed key takes the value the     *)
(* payload supplies for it.                                                *)
(***************************************************************************)
\* the payloads explored with exactly one malformed value, and the values
\* they supply for their well-formed keys
OneCorrupt ==
    (<<TOPIC_KILLSWITCH, K_RAW>> :>
        [address |-> "4Abc", ws_connected |-> TRUE, isolated_at |-> "12:00",
         block_number |-> 7])
    @@ (<<TOPIC_KILLSWITCH, K_TORN>> :>
        [state |-> "isolated", address |-> "4Abc", ws_connected |-> TRUE,
         block_number |-> 7])
    @@ (<<TOPIC_HEALTH, H_NAN>> :>
        [ha |-> TRUE, disk |-> 55, up |-> "3d", model |-> "m1"])
    @@ (<<TOPIC_GW_HEALTH, G_NAN>> :> [ha_reachable |-> TRUE])

\* the sub-report a topic is merged into, out of the three given
SubReport(topic, h, k, g) ==
    IF topic = TOPIC_HEALTH THEN h
    ELSE IF topic = TOPIC_KILLSWITCH THEN k
    ELSE g

C21_CorruptFieldDoesNotBlock ==
    [][(CallbackStep /\ <<ev'.topic, ev'.payload>> \in DOMAIN OneCorrupt)
          => LET supplied == OneCorrupt[<<ev'.topic, ev'.payload>>]
             IN \A k \in DOMAIN supplied :
                   SubReport(ev'.topic, health', killswitch', gw_health')[k]
                      = supplied[k]]_vars

\* the report with the unquoted state in front was merged over an empty
\* sub-report, and the four well-formed values after it arrived
C21_Witness ==
    /\ ev.op = "mqttCallback"
    /\ ev.topic = TOPIC_KILLSWITCH
    /\ ev.payload = K_RAW
    /\ killswitch.state = ""
    /\ killswitch.address = "4Abc"
    /\ killswitch.block_number = 7
    /\ killswitch.isolated_at = "12:00"
    /\ killswitch.ws_connected

(***************************************************************************)
(* C22  Sensor absence is never shown as zero: as long as no measurement   *)
(* has been read from the sensor, no number is published on the sensor     *)
(* topics and no number is rendered as the sensor reading.                 *)
(***************************************************************************)
\* readSCD4x() has stored a measurement (the fields start at 0 and are
\* assigned nowhere else)
MeasurementRead == sensor.co2 = READING

C22_AbsenceNeverZero ==
    ~MeasurementRead
        => /\ ev.publish = <<>>
           /\ \A i \in 1..Len(ev.shown) : ev.shown[i].as # "number"

(***************************************************************************)
(* C23  Bounded ghosting: with the framebuffer allocated, any five         *)
(* consecutive executed transitions contain at least one Full refresh, so  *)
(* at most four Fast refreshes follow one another, and the first           *)
(* transition after boot is Full.                                          *)
(***************************************************************************)
C23_BoundedGhosting ==
    [][/\ fast_run' < FULL_REFRESH_EVERY
       /\ \A i \in 1..Len(ev'.calls) :
             (ev'.calls[i].mode # "none" /\ ev'.calls[i].index = 0)
                 => ev'.calls[i].mode = "full"]_vars

\* four Fast refreshes in a row were followed by a Full one that neither
\* enters nor leaves isolation
C23_Witness ==
    /\ ev.op = "loop"
    /\ Len(ev.calls) = 1
    /\ ev.calls[1].mode = "full"
    /\ ev.calls[1].index = FULL_REFRESH_EVERY
    /\ ev.calls[1].from \in NormalScreens
    /\ ev.calls[1].to \in NormalScreens
    /\ fast_run = 0
    /\ nav.fast_count = FULL_REFRESH_EVERY + 1

(***************************************************************************)
(* C24  The state-changed flag is coarse-grained: the merge of a message   *)
(* on any of the three known topics (health, killswitch, gateway-health)   *)
(* raises the change flag, and the pass of loop() that reads the flag      *)
(* clears it.                                                              *)
(***************************************************************************)
KnownTopics == {TOPIC_HEALTH, TOPIC_KILLSWITCH, TOPIC_GW_HEALTH}

C24_CoarseChangeFlag ==
    [][/\ (CallbackStep /\ ev'.topic \in KnownTopics
             /\ Len(ev'.payload) < MQTT_MAX_LEN) => ks_changed'
       /\ LoopStep => ~ks_changed']_vars

(***************************************************************************)
(* C25  received is set only on successful extraction: an accepted payload *)
(* on a known topic that carries none of the keys of the sub-report leaves *)
(* the received flag of the sub-report as it was.                          *)
(***************************************************************************)
\* the keys of the sub-report of a topic
KeysOf(topic) ==
    IF topic = TOPIC_HEALTH THEN HealthKeys
    ELSE IF topic = TOPIC_KILLSWITCH THEN KillswitchKeys
    ELSE GwHealthKeys

C25_ReceivedOnlyOnExtraction ==
    [][(CallbackStep /\ ev'.topic \in KnownTopics
          /\ Len(ev'.payload) < MQTT_MAX_LEN
          /\ \A k \in KeysOf(ev'.topic) : KeyAbsent(ev'.payload, k))
          => SubReport(ev'.topic, health', killswitch', gw_health').received
               = SubReport(ev'.topic, health, killswitch, gw_health).received
      ]_vars

(***************************************************************************)
(* C26  Buttons and timeouts are mutually exclusive and at most one        *)
(* transition runs per tick: a pass in which an UP or DOWN press is        *)
(* accepted performs no timeout-driven transition and no Home              *)
(* self-refresh (and does not poll the sensor for one), and no pass makes  *)
(* more than one transitionTo call.                                        *)
(***************************************************************************)
C26_ButtonsExcludeTimeouts ==
    [][LoopStep
          => /\ Len(ev'.calls) <= 1
             /\ (ev'.up \/ ev'.down)
                   => /\ ev'.reads = 0
                      /\ \A i \in 1..Len(ev'.calls) :
                            ev'.calls[i].cause \notin {"home", "detail"}]_vars

\* a DOWN press accepted on a detail screen whose dwell had elapsed: the
\* one transition of the pass is the button's
C26_Witness ==
    /\ framebuffer
    /\ ev.op = "loop"
    /\ ~ev.up /\ ev.down
    /\ ev.from \in DetailScreens
    /\ ev.elapsed >= DETAIL_TIMEOUT_MS
    /\ Len(ev.calls) = 1
    /\ ev.calls[1].cause = "down"
    /\ ev.calls[1].mode # "none"

(***************************************************************************)
(* C27  Transition bookkeeping: every executed transition sets the current *)
(* screen to its target and restarts last_transition; last_home_refresh is *)
(* restarted by exactly the transitions whose target is Home or            *)
(* IsolatedHome, and a transition into Isolated or a detail screen leaves  *)
(* it as it was (the time of the pass added to its age).                   *)
(***************************************************************************)
C27_TransitionBookkeeping ==
    [][\A i \in 1..Len(ev'.calls) :
          ev'.calls[i].mode # "none"
              => /\ nav'.screen = ev'.calls[i].to
                 /\ nav'.last_transition = 0
                 /\ nav'.last_home_refresh =
                        IF ev'.calls[i].to \in {HOME, ISOLATED_HOME} THEN 0
                        ELSE AgeAdd(nav.last_home_refresh, ev'.dt,
                                    HOME_REFRESH_MS)]_vars

\* a transition into a detail screen that kept a running home-refresh age,
\* made from a screen that had been refreshed 20 s before
C27_Witness ==
    /\ ev.op = "loop"
    /\ Len(ev.calls) = 1
    /\ ev.calls[1].mode # "none"
    /\ ev.calls[1].to \in DetailScreens
    /\ nav.screen = ev.calls[1].to
    /\ nav.last_transition = 0
    /\ nav.last_home_refresh > 0
    /\ nav.last_home_refresh < HOME_REFRESH_MS

(***************************************************************************)
(* C28  Merges of different sub-reports commute: a merge on one topic      *)
(* leaves every field of the other two sub-reports unchanged, and merging  *)
(* a health, a killswitch and a gateway-health payload in any order gives  *)
(* the same device state.                                                  *)
(***************************************************************************)
\* the three sub-reports after mqttCallback delivers message m to d
Deliver(d, m) ==
    IF TooLarge(Len(m[2])) THEN d
    ELSE IF m[1] = TOPIC_HEALTH
    THEN [d EXCEPT !.health = MergeHealth(@, Extracted[m])]
    ELSE IF m[1] = TOPIC_KILLSWITCH
    THEN [d EXCEPT !.killswitch = MergeKillswitch(@, Extracted[m])]
    ELSE IF m[1] = TOPIC_GW_HEALTH
    THEN [d EXCEPT !.gw_health = MergeGwHealth(@, Extracted[m])]
    ELSE d

\* the callback delivers as Deliver says, keeps the other two sub-reports,
\* and any message on another known topic can be delivered before it or
\* after it with the same result (the six orders of three payloads are
\* reached from one another by such exchanges)
C28_MergesCommute ==
    [][(CallbackStep /\ ev'.topic \in KnownTopics)
          => LET m    == <<ev'.topic, ev'.payload>>
                 pre  == [health |-> health, killswitch |-> killswitch,
                          gw_health |-> gw_health]
                 post == [health |-> health', killswitch |-> killswitch',
                          gw_health |-> gw_health']
             IN /\ post = Deliver(pre, m)
                /\ ev'.topic # TOPIC_HEALTH => health' = health
                /\ ev'.topic # TOPIC_KILLSWITCH => killswitch' = killswitch
                /\ ev'.topic # TOPIC_GW_HEALTH => gw_health' = gw_health
                /\ \A o \in MergeMessages :
                      (o[1] \in KnownTopics /\ o[1] # m[1])
                          => Deliver(Deliver(pre, o), m) = Deliver(post, o)
      ]_vars

\* a gateway-health report was merged while the health and the killswitch
\* reports held received values
C28_Witness ==
    /\ ev.op = "mqttCallback"
    /\ ev.topic = TOPIC_GW_HEALTH
    /\ ev.payload = G_FULL
    /\ gw_health.ha_errors = 2
    /\ health.received /\ health.mem = 120
    /\ killswitch.received /\ killswitch.state = "isolated"

(***************************************************************************)
(* C29  Bounded reconnect: when the Wi-Fi link is down at the start of a   *)
(* pass, the reconnect wait ends after at most 20 polls whether or not the *)
(* link has come up, and the pass then goes on to sample the buttons and   *)
(* to evaluate the navigation.                                             *)
(***************************************************************************)
\* the polls of the reconnect wait in a watchdog trace
Polls(beats) == Cardinality({i \in 1..Len(beats) : beats[i] = "poll"})

C29_BoundedReconnect ==
    [][(LoopStep /\ \E i \in 1..Len(ev'.beats) : ev'.beats[i] = "begin")
          => LET d == DbLater(db, ev'.dt)
                 r == Navigate(NavLater(nav, ev'.dt), ks_changed, isIsolated,
                               ev'.up, ev'.down)
             IN /\ Polls(ev'.beats) <= WIFI_RETRIES
                /\ ev'.up = Pressed(prev.up, prev'.up, d.up)
                /\ ev'.set = Pressed(prev.set, prev'.set, d.set)
                /\ ev'.down = Pressed(prev.down, prev'.down, d.down)
                /\ nav' = r.nav
                /\ ev'.calls = r.calls
                /\ ~ks_changed']_vars

\* a pass that polled all 20 times and then accepted an UP press and made
\* the transition of the press
C29_Witness ==
    /\ framebuffer
    /\ ev.op = "loop"
    /\ Polls(ev.beats) = WIFI_RETRIES
    /\ ev.up
    /\ Len(ev.calls) = 1
    /\ ev.calls[1].cause = "up"
    /\ nav.screen = ev.calls[1].to

(***************************************************************************)
(* C30  Screen/isolation consistency: with the framebuffer allocated, at   *)
(* the end of every pass of loop() the screen being Isolated or            *)
(* IsolatedHome implies that the isolation boolean is true, and the screen *)
(* being Home implies that it is false.                                    *)
(***************************************************************************)
C30_ScreenMatchesIsolation ==
    (framebuffer /\ ev.op = "loop")
        => /\ nav.screen \in IsoScreens => isIsolated
           /\ nav.screen = HOME => ~isIsolated

\* a pass ended on Isolated after the override entered isolation, and the
\* isolation boolean is true
C30_Witness ==
    /\ framebuffer
    /\ ev.op = "loop"
    /\ Len(ev.calls) = 1
    /\ ev.calls[1].cause = "ks"
    /\ ev.calls[1].to = ISOLATED
    /\ nav.screen = ISOLATED
    /\ isIsolated

(***************************************************************************)
(* C31  The current screen is a member of the applicable cycle when the    *)
(* buttons are evaluated.  As claimed: whenever a pass reaches the button  *)
(* handling (the ks_changed block did not return), the screen belongs to   *)
(* the normal cycle if the isolation boolean is false and to the isolated  *)
(* cycle if it is true, so cycleNext/cyclePrev never fall back to the      *)
(* first screen of the cycle.                                              *)
(***************************************************************************)
\* the pass reaches the state machine: the ks_changed block makes no
\* transition
ReachesButtons ==
    LoopStep /\ KsTarget(ks_changed, isIsolated, nav.screen) = NONE

C32_NoFramebufferNoOp ==
    [][(~framebuffer /\ pc # "boot")
          => /\ ev'.calls # <<>>
                   => /\ nav' = NavLater(nav, ev'.dt)
                      /\ nav'.screen = nav.screen
                      /\ nav'.fast_count = nav.fast_count
                      /\ ev'.epd = <<>>
                      /\ \A i \in 1..Len(ev'.beats) :
                            ev'.beats[i] # "refresh"
             /\ LoopStep => ~ks_changed']_vars

\* without framebuffer a pass found the flag raised under isolation on
\* Home, called transitionTo(ISOLATED) and cleared the flag; the screen is
\* still Home and the counter still 0
C32_Witness ==
    /\ ~framebuffer
    /\ ev.op = "loop"
    /\ Len(ev.calls) = 1
    /\ ev.calls[1].cause = "ks"
    /\ ev.calls[1].to = ISOLATED
    /\ ev.epd = <<>>
    /\ nav.screen = HOME
    /\ nav.fast_count = 0
    /\ isIsolated
    /\ ~ks_changed

(***************************************************************************)
(* C33  Display-driver call protocol: a Full refresh is the sequence       *)
(* initFull, displayFull, initFast and a Fast refresh is the single call   *)
(* displayFast; after the boot initialisation and after every transition   *)
(* the panel is left in fast-init mode, so displayFast is never issued     *)
(* while the last initialisation of the panel was initFull.                *)
(***************************************************************************)
RECURSIVE Protocol(_)
\* the driver calls the protocol prescribes for the given refresh modes
Protocol(modes) ==
    IF modes = <<>> THEN <<>>
    ELSE (CASE modes[1] = "full" -> <<"Init", "Display", "Init_Fast">>
            [] modes[1] = "fast" -> <<"Display_Fast">>
            [] OTHER -> <<>>)
         \o Protocol(Tail(modes))

RECURSIVE FastOnlyWhenFast(_, _)
\* every Display_Fast of the driver calls is issued with the panel, which
\* starts in initialisation p, in its fast initialisation
FastOnlyWhenFast(p, epd) ==
    IF epd = <<>> THEN TRUE
    ELSE /\ epd[1] = "Display_Fast" => p = "fast"
         /\ FastOnlyWhenFast(IF epd[1] = "Init" THEN "full"
                             ELSE IF epd[1] = "Init_Fast" THEN "fast"
                             ELSE p,
                             Tail(epd))

C33_DriverProtocol ==
    [][/\ ev'.op \in {"setup", "loop"}
             => ev'.epd = Protocol([i \in 1..Len(ev'.calls) |->
                                        ev'.calls[i].mode])
       /\ FastOnlyWhenFast(panel, ev'.epd)
       /\ panel' = "fast"]_vars

\* the Fast refresh that follows the Full refresh of setup(): one
\* Display_Fast, issued after the Init_Fast that ended the Full refresh
C33_Witness ==
    /\ ev.op = "loop"
    /\ Len(ev.calls) = 1
    /\ ev.calls[1].mode = "fast"
    /\ ev.calls[1].index = 1
    /\ ev.epd = <<"Display_Fast">>
    /\ panel = "fast"

(***************************************************************************)
(* C34  Button tie-break: when an UP press and a DOWN press are both       *)
(* accepted in one pass, only the transition of UP (next) is performed;    *)
(* a SET press never changes the screen, the transition counter or a       *)
(* navigation timestamp: a pass whose only event is an accepted SET press  *)
(* makes no transition and leaves NavState as the time of the pass alone   *)
(* leaves it.                                                              *)
(***************************************************************************)
\* a timeout of the state machine is due in the pass being taken
TimeoutDue ==
    LET n == NavLater(nav, ev'.dt)
    IN \/ nav.screen = HOME /\ n.last_home_refresh >= HOME_REFRESH_MS
       \/ nav.screen \in DetailScreens
            /\ n.last_transition >= DETAIL_TIMEOUT_MS

C34_ButtonTieBreak ==
    [][LoopStep
          => /\ (ev'.up /\ ev'.down)
                   => /\ \A i \in 1..Len(ev'.calls) :
                            ev'.calls[i].cause # "down"
                      /\ ReachesButtons
                            => /\ Len(ev'.calls) = 1
                               /\ ev'.calls[1].cause = "up"
                               /\ ev'.calls[1].to =
                                      cycleNext(CycleOf(isIsolated),
                                                nav.screen)
             /\ (ev'.set /\ ~ev'.up /\ ~ev'.down /\ ~ks_changed
                   /\ ~TimeoutDue)
                   => /\ ev'.calls = <<>>
                      /\ nav' = NavLater(nav, ev'.dt)]_vars

\* UP and DOWN were both accepted on DetailEnvironment and the pass went
\* to DetailNetwork, the next screen, not back to Home
C34_Witness ==
    /\ framebuffer
    /\ ev.op = "loop"
    /\ ev.up /\ ev.down
    /\ ev.from = DETAIL_BREATH
    /\ Len(ev.calls) = 1
    /\ ev.calls[1].cause = "up"
    /\ nav.screen = DETAIL_NERVE

(***************************************************************************)
(* C35  The quoted-string extractor truncates rather than overflows: for   *)
(* every text, key and destination of capacity out_sz, the string left in  *)
(* the destination has at most out_sz - 1 characters, is a prefix of the   *)
(* quoted value of the key in the text, and its terminator is written      *)
(* inside the destination, right after the string.                         *)
(***************************************************************************)
RECURSIVE UpToQuote(_)
\* the characters of a JSON string body up to its closing quote, a
\* backslash taking the character after it along
UpToQuote(s) ==
    IF Len(s) = 0 \/ SubSeq(s, 1, 1) = "\"" THEN ""
    ELSE IF SubSeq(s, 1, 1) = "\\" /\ Len(s) >= 2
    THEN SubSeq(s, 1, 2) \o UpToQuote(From(s, 3))
    ELSE SubSeq(s, 1, 1) \o UpToQuote(Tail(s))

\* the quoted value of the key in the text, empty when there is none
QuotedValue(json, key) ==
    IF KeyAbsent(json, key) THEN ""
    ELSE LET v == ValueText(json, key) IN
         IF Len(v) = 0 \/ SubSeq(v, 1, 1) # "\"" THEN ""
         ELSE UpToQuote(Tail(v))

IsPrefix(a, b) == Len(a) <= Len(b) /\ SubSeq(b, 1, Len(a)) = a

C35_ExtractorTruncates ==
    ev.op = "jsonStr"
       => /\ Len(ev.out) <= ev.out_sz - 1
          /\ IsPrefix(ev.out, QuotedValue(ev.payload, ev.key))
          /\ ev.nul \in 1..ev.out_sz
          /\ ev.nul = Len(ev.out) + 1

\* "isolated-by-killswitch" extracted into the 16 bytes of the state field
C35_Witness ==
    /\ ev.op = "jsonStr"
    /\ ev.key = "state"
    /\ ev.out_sz = STATE_SZ
    /\ Len(QuotedValue(ev.payload, ev.key)) > STATE_SZ
    /\ ev.out = "isolated-by-kil"
    /\ ev.nul = STATE_SZ

====
